---- MODULE Spec2Model ----
(***************************************************************************)
(* Model of monitor.py: the per-source encoder supervisor with its inline  *)
(* EBU R128 statistics extractor (_ffmpeg_thread), the meter graph builder *)
(* (Application._get_meter_graph) and the layout validator                 *)
(* (Application._layout_check).                                            *)
(*                                                                         *)
(* Strings are modelled as sequences of tokens, so that formatting and     *)
(* replacement are computed and not assumed.                               *)
(***************************************************************************)
EXTENDS Integers, Sequences, FiniteSets, TLC

\* ------------------------------------------------------------------ bounds
\* Diagnostic lines the encoders emit during one run of the model.
MaxLines == 3
\* Times the environment closes the diagnostic stream the supervisor reads.
MaxCloses == 1
\* The same two budgets for the specification with fairness.
MaxLinesLive == 2
MaxClosesLive == 1
\* The same two budgets for the specification of the respawn loop.
MaxLinesRespawn == 2
MaxClosesRespawn == 2
\* Frames of a layout document.
MaxFrames == 2
\* Audio streams of a source.
MaxStreams == 2
\* Calls of _layout_check in one run of the model.
MaxLayoutCalls == 2
\* The two budgets for the specification of the ring buffer.
MaxLinesRing == 6
MaxClosesRing == 2
\* Sources of a layout.
MaxSources == 2
\* Width and heights of a video stream, and the terms of its aspect ratio.
MaxWidth == 4
MaxHeight == 3
MaxSarTerm == 3

\* --------------------------------------------------------------- constants
deque_size == 5

\* ------------------------------------------------------------------ strings
Digits == <<"0", "1", "2", "3", "4", "5", "6", "7", "8", "9">>

RECURSIVE Str(_)
\* str(n) / '{}'.format(n) of a non-negative integer: its decimal digits.
Str(n) == IF n < 10 THEN <<Digits[n + 1]>> ELSE Str(n \div 10) \o <<Digits[(n % 10) + 1]>>

\* s.replace(old, new) for a one-character old.
Replace(s, old, new) == [k \in DOMAIN s |-> IF s[k] = old THEN new ELSE s[k]]

RECURSIVE Join(_, _)
\* sep.join(parts), the parts being strings.
Join(sep, parts) ==
    IF parts = <<>> THEN <<>>
    ELSE IF Len(parts) = 1 THEN parts[1]
    ELSE parts[1] \o sep \o Join(sep, Tail(parts))

\* ------------------------------------------------------- diagnostic lines
\* A line of the encoder's stderr, by what the supervisor tests of it:
\*   prefix   line.startswith('[Parsed_ebur128_')
\*   summary  line.find('Summary') != -1
\*   groups   EBUR_RE.match(line).groups(), <<>> when the line does not match
\* (EBUR_RE begins with the prefix, so a line without it never matches).
NoMatch == <<>>
OtherLine == [prefix |-> FALSE, summary |-> FALSE, groups |-> NoMatch]
SummaryLine == [prefix |-> TRUE, summary |-> TRUE, groups |-> NoMatch]
BadLine == [prefix |-> TRUE, summary |-> FALSE, groups |-> NoMatch]
ReportLine(g) == [prefix |-> TRUE, summary |-> FALSE, groups |-> g]

\* The captures (m, s, i, lra) of two different report lines.
Measurements ==
    { << <<"-20.1">>, <<"-21.0">>, <<"-23.0">>, <<"5.0">> >>,
      << <<"-9.9">>, <<"-10.5">>, <<"-70.0">>, <<"0.0">> >> }

Lines == {OtherLine, SummaryLine, BadLine} \cup {ReportLine(g) : g \in Measurements}

ExitCodes == {"0", "1"}

\* EBUR_RE.match(line): the groups, or NoMatch.
EBUR_RE_match(line) == line.groups

\* -------------------------------------------------------- audio topology
Mono5 == [index |-> 5, channels |-> 1]
Stereo3 == [index |-> 3, channels |-> 2]
\* The audio streams of the sources the supervisor is run for.
StreamLists == { <<>>, <<Mono5>>, <<Stereo3>> }

VARIABLES
    pc,                   \* position of the supervisor thread
    audio_streams,        \* the probed audio streams of the source
    audio_ch_ids,         \* argument of _ffmpeg_thread
    log,                  \* content of log_path appended by this thread
    stats_file,           \* the file at ebur_stats_path
    proc,                 \* the encoder process the thread holds (Popen object and OS process)
    spawned,              \* history: processes spawned so far
    orphans,              \* processes of earlier iterations that are still running
    last_lines_log,
    ebur_stats_disabled,
    gathered_ebur_stats,
    current_ch,
    passed_summary,
    reports,              \* history: groups of the report lines gathered in this lifetime
    writes,               \* history: snapshot writes completed in this lifetime
    lines_left,           \* lines the environment may still emit
    closes_left,          \* stream closings the environment may still cause
    layout_doc,           \* the layout file as json.load returns it
    map_width,            \* conf.LAYOUT_MAP_WIDTH
    self_layout,          \* Application.layout
    layout_outcome,       \* how the last call of _layout_check ended
    layout_calls,         \* history: calls of _layout_check so far
    lines_read,           \* history: the lines read from the stderr of the current process
    sources,              \* the sources of the layout, each with what its probe returns
    run_pc,               \* position of _cmd_run
    ffmpeg_threads,       \* the threads _cmd_run has created
    started,              \* how many of them it has started
    run_error             \* the exception that ended _cmd_run, if any

vars == <<pc, audio_streams, audio_ch_ids, log, stats_file, proc, spawned, orphans,
          last_lines_log,
          ebur_stats_disabled, gathered_ebur_stats, current_ch, passed_summary,
          reports, writes, lines_left, closes_left,
          layout_doc, map_width, self_layout, layout_outcome, layout_calls,
          lines_read, sources, run_pc, ffmpeg_threads, started, run_error>>

run_vars == <<sources, run_pc, ffmpeg_threads, started, run_error>>
layout_vars == <<layout_doc, map_width, self_layout, layout_outcome, layout_calls>>
thread_vars == <<pc, audio_streams, audio_ch_ids, log, stats_file, proc, spawned, orphans,
                 last_lines_log, ebur_stats_disabled, gathered_ebur_stats, current_ch,
                 passed_summary, reports, writes, lines_left, closes_left, lines_read>>

extractor == <<ebur_stats_disabled, gathered_ebur_stats, current_ch, passed_summary>>
procs == <<proc, spawned, orphans>>


\* ------------------------------------------------------ _get_meter_graph
\* splitted_outputs numbering the channels from 1.
SplittedOutputsFromOne(s) == [c \in 1..s.channels |-> Str(s.index) \o <<"_">> \o Str(c)]

\* splitted_outputs of a multi-channel stream: "{index}_{ch_id}" for ch_id in range(0, channels).
SplittedOutputs(s) == [c \in 1..s.channels |-> Str(s.index) \o <<"_">> \o Str(c - 1)]

RECURSIVE AudioSplittedChannels(_)
\* audio_splitted_channels after the loop over audio_streams.
AudioSplittedChannels(streams) ==
    IF streams = <<>> THEN <<>>
    ELSE (IF Head(streams).channels = 1
          THEN << Str(Head(streams).index) \o <<"_", "0">> >>
          ELSE SplittedOutputs(Head(streams)))
         \o AudioSplittedChannels(Tail(streams))

\* The third value _get_meter_graph returns: every '_' replaced by ':'.
MeterGraphChannelIds(streams) ==
    LET audio_splitted_channels == AudioSplittedChannels(streams)
    IN  [k \in DOMAIN audio_splitted_channels |-> Replace(audio_splitted_channels[k], "_", ":")]

\* -------------------------------------------------------- _ffmpeg_thread
NoFile == [exists |-> FALSE, lines |-> <<>>]

\* A deque without maxlen.
DequeAppendUnbounded(d, line) == Append(d, line)

\* deque(maxlen=deque_size).append(line)
DequeAppend(d, line) ==
    IF Len(d) < deque_size THEN Append(d, line) ELSE Append(Tail(d), line)

\* One entry of the log: _write_log(s) appends "{timestamp}: {s}".
LogEntry(kind, code, output) == [kind |-> kind, code |-> code, output |-> output]

\* _write_log with a truncating open (mode 'w' for 'a').
WriteLogTruncating(l, entry) == <<entry>>

\* _write_log: open(log_path, 'a') and one write.
WriteLog(l, entry) == Append(l, entry)

\* '{} {}'.format(audio_ch_ids[current_ch], ' '.join(m.groups()))
StatLine(ch_id, groups) == ch_id \o <<" ">> \o Join(<<" ">>, groups)

\* The cycle taken for complete one channel early.
CycleCompleteOffByOne(ch, audio_ch_count) == ch + 1 = audio_ch_count

\* The condition under which a cycle is written.
CycleComplete(ch, audio_ch_count) == ch = audio_ch_count

\* The extractor without the skip of the warm-up Summary line.
SkippedButSummary(line) ==
    \/ ebur_stats_disabled
    \/ ~line.prefix

\* The extractor without the test of ebur_stats_disabled.
SkippedIgnoringDisabled(line) ==
    \/ ~line.prefix
    \/ (~passed_summary /\ line.summary)

\* The lines on which the extractor does nothing (lines 55-58).
Skipped(line) ==
    \/ ebur_stats_disabled
    \/ ~line.prefix
    \/ (~passed_summary /\ line.summary)

\* proc.returncode as the thread reads it: neither poll() nor wait() is ever
\* called on proc, so the attribute keeps the value Popen gave it.
Returncode(p) == p.returncode

\* Before the first Popen there is no process.
NoProc == [alive |-> FALSE, stderr_open |-> FALSE, exitcode |-> "", returncode |-> "None"]
\* subprocess.Popen(exec_args, stderr=subprocess.PIPE, ...): a running process;
\* its returncode attribute is None.
NewProc == [alive |-> TRUE, stderr_open |-> TRUE, exitcode |-> "", returncode |-> "None"]

\* _cmd_run: the channel ids of the meter graph become the thread's argument
\* and the thread is started.
CmdRun ==
    /\ pc = "setup"
    /\ audio_ch_ids' = MeterGraphChannelIds(audio_streams)
    /\ pc' = "log_start"
    /\ UNCHANGED <<run_vars, layout_vars, audio_streams, log, stats_file, procs, last_lines_log, lines_read, extractor,
                   reports, writes, lines_left, closes_left>>

\* Lines 44-46.
LogStart ==
    /\ pc = "log_start"
    /\ log' = WriteLog(log, LogEntry("starting", "", <<>>))
    /\ last_lines_log' = <<>>
    /\ ebur_stats_disabled' = FALSE
    /\ pc' = "spawn"
    /\ UNCHANGED <<run_vars, layout_vars, audio_streams, audio_ch_ids, stats_file, procs, gathered_ebur_stats,
                   current_ch, passed_summary, reports, writes, lines_left, closes_left,
                   lines_read>>

\* Line 47.
Spawn ==
    /\ pc = "spawn"
    /\ proc' = NewProc
    /\ spawned' = spawned + 1
    /\ orphans' = IF proc.alive THEN orphans + 1 ELSE orphans
    /\ lines_read' = <<>>
    /\ pc' = "log_started"
    /\ UNCHANGED <<run_vars, layout_vars, audio_streams, audio_ch_ids, log, stats_file, last_lines_log, extractor,
                   reports, writes, lines_left, closes_left>>

\* Lines 48-52 without the reset of the buffer.
LogStartedKeepingBuffer ==
    /\ pc = "log_started"
    /\ log' = WriteLog(log, LogEntry("started", "", <<>>))
    /\ current_ch' = 0
    /\ passed_summary' = FALSE
    /\ reports' = <<>>
    /\ writes' = 0
    /\ pc' = "read"
    /\ UNCHANGED <<run_vars, layout_vars, audio_streams, audio_ch_ids, stats_file, procs, last_lines_log, lines_read,
                   ebur_stats_disabled, gathered_ebur_stats, lines_left, closes_left>>

\* Lines 48-52 without the reset of the cursor and of the buffer.
LogStartedKeepingCycle ==
    /\ pc = "log_started"
    /\ log' = WriteLog(log, LogEntry("started", "", <<>>))
    /\ passed_summary' = FALSE
    /\ reports' = <<>>
    /\ writes' = 0
    /\ pc' = "read"
    /\ UNCHANGED <<run_vars, layout_vars, audio_streams, audio_ch_ids, stats_file, procs, last_lines_log, lines_read,
                   ebur_stats_disabled, gathered_ebur_stats, current_ch, lines_left,
                   closes_left>>

\* Lines 48-52.
LogStarted ==
    /\ pc = "log_started"
    /\ log' = WriteLog(log, LogEntry("started", "", <<>>))
    /\ gathered_ebur_stats' = <<>>
    /\ current_ch' = 0
    /\ passed_summary' = FALSE
    /\ reports' = <<>>
    /\ writes' = 0
    /\ pc' = "read"
    /\ UNCHANGED <<run_vars, layout_vars, audio_streams, audio_ch_ids, stats_file, procs, last_lines_log, lines_read,
                   ebur_stats_disabled, lines_left, closes_left>>

\* Lines 71-72, up to open(ebur_stats_path, 'w'): the file is created or truncated.
CheckCycle(ch) ==
    IF CycleComplete(ch, Len(audio_ch_ids))
    THEN /\ stats_file' = [exists |-> TRUE, lines |-> <<>>]
         /\ pc' = "write"
    ELSE /\ UNCHANGED stats_file
         /\ pc' = "read"

\* Lines 60-63 and 71-74: a report line that parses.
Gather(m) ==
    /\ passed_summary' = TRUE
    /\ IF current_ch + 1 > Len(audio_ch_ids)
       THEN \* audio_ch_ids[current_ch] raises IndexError: the thread ends.
            /\ pc' = "crashed"
            /\ UNCHANGED <<gathered_ebur_stats, current_ch, reports, stats_file>>
       ELSE /\ gathered_ebur_stats' =
                   Append(gathered_ebur_stats, StatLine(audio_ch_ids[current_ch + 1], m))
            /\ current_ch' = current_ch + 1
            /\ reports' = Append(reports, m)
            /\ CheckCycle(current_ch + 1)
    /\ UNCHANGED <<log, ebur_stats_disabled>>

\* Lines 64-74 without the handler of FileNotFoundError: with no snapshot
\* file to remove, the thread ends.
ParseErrorUncaught ==
    IF stats_file.exists
    THEN /\ log' = WriteLog(log, LogEntry("warning", "", <<>>))
         /\ ebur_stats_disabled' = TRUE
         /\ stats_file' = NoFile
         /\ pc' = "read"
         /\ UNCHANGED <<gathered_ebur_stats, current_ch, passed_summary, reports>>
    ELSE /\ pc' = "crashed"
         /\ UNCHANGED <<log, stats_file, extractor, reports>>

\* Lines 64-74: a line with the prefix that does not parse.
ParseError ==
    /\ log' = WriteLog(log, LogEntry("warning", "", <<>>))
    /\ ebur_stats_disabled' = TRUE
    /\ IF CycleComplete(current_ch, Len(audio_ch_ids))
       THEN /\ stats_file' = [exists |-> TRUE, lines |-> <<>>]
            /\ pc' = "write"
       ELSE /\ stats_file' = NoFile
            /\ pc' = "read"
    /\ UNCHANGED <<gathered_ebur_stats, current_ch, passed_summary, reports>>

\* One iteration of "for line in proc.stderr" (lines 53-72): the encoder, its
\* stderr still open, emits a line and the thread processes it.
ReadLine(line) ==
    /\ pc = "read"
    /\ proc.stderr_open
    /\ lines_left > 0
    /\ lines_left' = lines_left - 1
    /\ last_lines_log' = DequeAppend(last_lines_log, line)
    /\ lines_read' = Append(lines_read, line)
    /\ IF Skipped(line)
       THEN /\ pc' = "read"
            /\ UNCHANGED <<log, stats_file, extractor, reports>>
       ELSE IF EBUR_RE_match(line) # NoMatch
            THEN Gather(EBUR_RE_match(line))
            ELSE ParseError
    /\ UNCHANGED <<run_vars, layout_vars, audio_streams, audio_ch_ids, procs, writes, closes_left>>

\* _write_ebur_stats, lines 40-41: the lines written so far reach the file when
\* the writer's buffer is flushed, which may happen before the file is closed.
FlushStats(n) ==
    /\ pc = "write"
    /\ n > Len(stats_file.lines)
    /\ n < Len(gathered_ebur_stats)
    /\ stats_file' = [exists |-> TRUE, lines |-> SubSeq(gathered_ebur_stats, 1, n)]
    /\ UNCHANGED <<run_vars, layout_vars, pc, audio_streams, audio_ch_ids, log, procs, last_lines_log, lines_read, extractor,
                   reports, writes, lines_left, closes_left>>

\* The end of _write_ebur_stats (the file is closed) and lines 73-74.
CloseStats ==
    /\ pc = "write"
    /\ stats_file' = [exists |-> TRUE, lines |-> gathered_ebur_stats]
    /\ gathered_ebur_stats' = <<>>
    /\ current_ch' = 0
    /\ writes' = writes + 1
    /\ pc' = "read"
    /\ UNCHANGED <<run_vars, layout_vars, audio_streams, audio_ch_ids, log, procs, last_lines_log, lines_read,
                   ebur_stats_disabled, passed_summary, reports, lines_left, closes_left>>

\* "for line in proc.stderr" ends: the stream is at end of file.
ReadEOF ==
    /\ pc = "read"
    /\ ~proc.stderr_open
    /\ pc' = "log_end"
    /\ UNCHANGED <<run_vars, layout_vars, audio_streams, audio_ch_ids, log, stats_file, procs, last_lines_log, lines_read,
                   extractor, reports, writes, lines_left, closes_left>>

\* A loop that ends when the encoder exited with code 0.
AfterLogEndUnlessCleanExit == IF proc.exitcode = "0" THEN "done" ELSE "log_start"

\* Where the thread goes after the end marker: back to the top of "while True".
AfterLogEnd == "log_start"

\* Lines 75-77.
LogEnd ==
    /\ pc = "log_end"
    /\ log' = WriteLog(log, LogEntry("stopped", Returncode(proc), last_lines_log))
    /\ pc' = AfterLogEnd
    /\ UNCHANGED <<run_vars, layout_vars, audio_streams, audio_ch_ids, stats_file, procs, last_lines_log, lines_read, extractor,
                   reports, writes, lines_left, closes_left>>

\* ------------------------------------------------------- the environment
\* Closing the stream the supervisor reads makes it respawn: the model lets
\* the environment do that closes_left times.

\* The encoder process closes its stderr and keeps running.
ProcCloseStderr ==
    /\ proc.alive /\ proc.stderr_open
    /\ closes_left > 0
    /\ closes_left' = closes_left - 1
    /\ proc' = [proc EXCEPT !.stderr_open = FALSE]
    /\ UNCHANGED <<run_vars, layout_vars, pc, audio_streams, audio_ch_ids, log, stats_file, spawned, orphans,
                   last_lines_log, lines_read, extractor, reports, writes, lines_left>>

\* The encoder process exits with a code; its stderr is closed with it.
ProcExit(code) ==
    /\ proc.alive
    /\ proc.stderr_open => closes_left > 0
    /\ closes_left' = IF proc.stderr_open THEN closes_left - 1 ELSE closes_left
    /\ proc' = [proc EXCEPT !.alive = FALSE, !.stderr_open = FALSE, !.exitcode = code]
    /\ UNCHANGED <<run_vars, layout_vars, pc, audio_streams, audio_ch_ids, log, stats_file, spawned, orphans,
                   last_lines_log, lines_read, extractor, reports, writes, lines_left>>

\* A process of an earlier iteration, left running, exits.
OrphanExit ==
    /\ orphans > 0
    /\ orphans' = orphans - 1
    /\ UNCHANGED <<run_vars, layout_vars, pc, audio_streams, audio_ch_ids, log, stats_file, proc, spawned,
                   last_lines_log, lines_read, extractor, reports, writes, lines_left, closes_left>>

\* --------------------------------------------------------- _layout_check
\* A frame of the layout document, by what _layout_check tests of it:
\*   is_dict       type(f) == dict
\*   has_required  required_frame_parameters.issubset(f.keys())
\*   types_ok      every parameter of frame_parameters_types has its type
\* and the integer parameters the checks read.
Frame(x, y, width, height) ==
    [is_dict |-> TRUE, has_required |-> TRUE, types_ok |-> TRUE,
     x |-> x, y |-> y, width |-> width, height |-> height, video_height |-> 480]

\* range(a, b) as a sequence.
Range(a, b) == [k \in 1..(b - a) |-> a + k - 1]

RECURSIVE Flatten(_)
Flatten(ss) == IF ss = <<>> THEN <<>> ELSE Head(ss) \o Flatten(Tail(ss))

\* [(x, y) for x in range(f.x, f.x + f.width) for y in range(f.y, f.y + f.height)]
OccupiedByFrame(f) ==
    Flatten([k \in 1..Len(Range(f.x, f.x + f.width)) |->
               [j \in 1..Len(Range(f.y, f.y + f.height)) |->
                  <<Range(f.x, f.x + f.width)[k], Range(f.y, f.y + f.height)[j]>>]])

\* Indexing a Python list of length n accepts -n .. n-1 only.
IndexInRange(k, n) == (0 - n) <= k /\ k < n
\* The position a valid index reads: a negative index counts from the end.
ListIndex(k, n) == IF k < 0 THEN k + n ELSE k

Max(a, b) == IF a >= b THEN a ELSE b

Outcome(result, frame, x, y, map_height) ==
    [result |-> result, frame |-> frame, x |-> x, y |-> y, map_height |-> map_height]

RECURSIVE CheckFrames(_, _, _, _)
\* The first loop over the frames (lines 393-411), from frame i (counted from 1)
\* with the map_height reached so far: the outcome of the first check that
\* fails, or "ok" with the final map_height.
CheckFrames(frames, i, width, map_height) ==
    IF i > Len(frames) THEN Outcome("ok", 0, 0, 0, map_height)
    ELSE LET f == frames[i] IN
         IF ~f.is_dict THEN Outcome("LayoutException", i - 1, 0, 0, map_height)
         ELSE IF ~f.has_required
              \* The message is formatted with one argument for two fields:
              \* str.format raises IndexError before LayoutException is built.
              THEN Outcome("IndexError", i - 1, 0, 0, map_height)
         ELSE IF ~f.types_ok THEN Outcome("LayoutException", i - 1, 0, 0, map_height)
         ELSE IF f.x + f.width > width THEN Outcome("LayoutException", i - 1, 0, 0, map_height)
         ELSE IF f.video_height <= 0
              THEN Outcome("LayoutException", i - 1, 0, 0, Max(map_height, f.y + f.height))
         ELSE CheckFrames(frames, i + 1, width, Max(map_height, f.y + f.height))

\* layout_map as built at line 412: width columns of map_height free cells
\* (no column for a width below 1, no cell for a height below 1).
EmptyMap(width, map_height) ==
    [x \in 0..(width - 1) |-> [y \in 0..(map_height - 1) |-> "."]]

RECURSIVE MarkCells(_, _, _, _, _, _)
\* The loop over occupied_by_frame (lines 416-420) from cell k of frame i.
MarkCells(layout_map, cells, k, i, width, map_height) ==
    IF k > Len(cells) THEN [outcome |-> Outcome("ok", 0, 0, 0, map_height), map |-> layout_map]
    ELSE LET x == cells[k][1]
             y == cells[k][2]
         IN  IF ~IndexInRange(x, width) \/ ~IndexInRange(y, map_height)
             THEN [outcome |-> Outcome("IndexError", i - 1, x, y, map_height),
                   map |-> layout_map]
             ELSE IF layout_map[ListIndex(x, width)][ListIndex(y, map_height)] # "."
             THEN [outcome |-> Outcome("LayoutException", i - 1, x, y, map_height),
                   map |-> layout_map]
             ELSE MarkCells(
                    [layout_map EXCEPT ![ListIndex(x, width)][ListIndex(y, map_height)] =
                        Str(i - 1)],
                    cells, k + 1, i, width, map_height)

RECURSIVE MarkFrames(_, _, _, _, _)
\* The second loop over the frames (lines 413-420), from frame i.
MarkFrames(layout_map, frames, i, width, map_height) ==
    IF i > Len(frames) THEN Outcome("ok", 0, 0, 0, map_height)
    ELSE LET marked == MarkCells(layout_map, OccupiedByFrame(frames[i]), 1, i, width,
                                 map_height)
         IN  IF marked.outcome.result # "ok" THEN marked.outcome
             ELSE MarkFrames(marked.map, frames, i + 1, width, map_height)

\* _layout_check from line 370 on, for a document and a map width.
CheckLayout(doc, width) ==
    IF doc.kind # "list" THEN Outcome("LayoutException", 0, 0, 0, 0)
    ELSE LET checked == CheckFrames(doc.frames, 1, width, 0)
         IN  IF checked.result # "ok" THEN checked
             ELSE MarkFrames(EmptyMap(width, checked.map_height), doc.frames, 1, width,
                             checked.map_height)

NoLayout == [set |-> FALSE, frames |-> <<>>]
NoOutcome == Outcome("none", 0, 0, 0, 0)

\* _layout_check storing the document before it is checked.
LayoutCheckStoringFirst ==
    /\ layout_calls < MaxLayoutCalls
    /\ layout_calls' = layout_calls + 1
    /\ IF self_layout.set
       THEN /\ layout_outcome' = Outcome("ok", 0, 0, 0, layout_outcome.map_height)
            /\ UNCHANGED self_layout
       ELSE /\ layout_outcome' = CheckLayout(layout_doc, map_width)
            /\ self_layout' = [set |-> TRUE, frames |-> layout_doc.frames]
    /\ UNCHANGED <<run_vars, thread_vars, layout_doc, map_width>>

\* One call of _layout_check (lines 365-424).
LayoutCheck ==
    /\ layout_calls < MaxLayoutCalls
    /\ layout_calls' = layout_calls + 1
    /\ IF self_layout.set
       THEN \* 'Already checked!'
            /\ layout_outcome' = Outcome("ok", 0, 0, 0, layout_outcome.map_height)
            /\ UNCHANGED self_layout
       ELSE /\ layout_outcome' = CheckLayout(layout_doc, map_width)
            /\ self_layout' = IF CheckLayout(layout_doc, map_width).result = "ok"
                              THEN [set |-> TRUE, frames |-> layout_doc.frames]
                              ELSE self_layout
    /\ UNCHANGED <<run_vars, thread_vars, layout_doc, map_width>>

\* --------------------------------------------------------------- _cmd_run
\* A chain of the filtergraph, by the link labels it reads and the ones it
\* writes (the input stream specifiers [0:n] and [v:0] are no link labels).
Chain(inputs, outputs) == [inputs |-> inputs, outputs |-> outputs]

\* scale_graph (lines 223-225).
ScaleGraph ==
    << Chain(<<>>, << <<"ebur_nullsrc">> >>),
       Chain(<< <<"ebur_nullsrc">> >>, << <<"ebur_scale">> >>) >>

\* audio_in_chains (lines 231-244): one chain per audio stream.
AudioInChains(streams) ==
    [k \in DOMAIN streams |->
        Chain(<<>>,
              IF streams[k].channels = 1
              THEN << <<"audio_in_">> \o Str(streams[k].index) \o <<"_", "0">> >>
              ELSE [c \in 1..streams[k].channels |->
                      <<"audio_in_">> \o SplittedOutputs(streams[k])[c]])]

\* The chains of one meter (lines 256-261).
AudioMeterChain(ch) ==
    << Chain(<<>>, << <<"meter_bg_">> \o ch >>),
       Chain(<< <<"audio_in_">> \o ch >>, << <<"ebur_">> \o ch >>),
       Chain(<< <<"ebur_">> \o ch >>, << <<"ebur_crop_">> \o ch >>),
       Chain(<< <<"meter_bg_">> \o ch, <<"ebur_crop_">> \o ch >>, << <<"meter_">> \o ch >>) >>

\* bg_chain (lines 273-275).
BgChain ==
    << Chain(<<>>, << <<"all_meters_bg">> >>),
       Chain(<< <<"all_meters_bg">>, <<"ebur_scale">> >>, << <<"all_meters_mid_", "0">> >>) >>

\* The overlay of meter i, counted from 0, of total_meters (lines 279-284).
OverlayChain(i, ch, total_meters) ==
    Chain(<< <<"all_meters_mid_">> \o Str(i), <<"meter_">> \o ch >>,
          << IF i + 1 < total_meters
             THEN <<"all_meters_mid_">> \o Str(i + 1)
             ELSE <<"all_meters_out">> >>)

\* The graph _get_meter_graph returns.
MeterGraph(streams) ==
    LET audio_splitted_channels == AudioSplittedChannels(streams)
        total_meters == Len(audio_splitted_channels)
    IN  ScaleGraph
        \o AudioInChains(streams)
        \o Flatten([k \in 1..total_meters |-> AudioMeterChain(audio_splitted_channels[k])])
        \o BgChain
        \o [k \in 1..total_meters |-> OverlayChain(k - 1, audio_splitted_channels[k], total_meters)]

\* The chains _cmd_run appends (lines 166-195): scale_chain, border_chain,
\* meter_scale_chain and the overlay chains.
RunChains ==
    << Chain(<<>>, << <<"scaled_video">> >>),
       Chain(<<>>, << <<"border_bg">> >>),
       Chain(<< <<"border_bg">>, <<"scaled_video">> >>, << <<"bordered_video">> >>),
       Chain(<< <<"all_meters_out">> >>, << <<"scaled_meters">> >>),
       Chain(<<>>, << <<"main_bg">> >>),
       Chain(<< <<"main_bg">>, <<"scaled_meters">> >>, << <<"main_mid_0">> >>),
       Chain(<< <<"main_mid_0">>, <<"bordered_video">> >>, << <<"video_out">> >>) >>

\* The filtergraph of a source (graph at line 196).
Filtergraph(streams) == MeterGraph(streams) \o RunChains

RECURSIVE Split(_, _)
\* s.split(sep) for a one-character sep.
Split(s, sep) ==
    IF \A k \in DOMAIN s : s[k] # sep THEN <<s>>
    ELSE LET k == CHOOSE j \in DOMAIN s : s[j] = sep /\ \A h \in 1..(j - 1) : s[h] # sep
         IN  <<SubSeq(s, 1, k - 1)>> \o Split(SubSeq(s, k + 1, Len(s)), sep)

\* The strings float() converts here: the decimal numerals.
IsNumeral(s) == s # <<>> /\ \A k \in DOMAIN s : \E d \in DOMAIN Digits : Digits[d] = s[k]

RECURSIVE Float(_)
\* float(s) of a decimal numeral.
Float(s) ==
    IF s = <<>> THEN 0
    ELSE 10 * Float(SubSeq(s, 1, Len(s) - 1))
         + (CHOOSE d \in 0..9 : Digits[d + 1] = s[Len(s)])

\* Lines 152-159: the exception that escapes, or the ratio l/r and whether the
\* warning was given.
Sar(error, warned, l, r) == [error |-> error, warned |-> warned, l |-> l, r |-> r]
ParseSar(s) ==
    LET parts == Split(s, ":") IN
    IF Len(parts) # 2
    THEN \* the unpacking raises ValueError, which is caught
         Sar("none", TRUE, 1, 1)
    ELSE IF ~IsNumeral(parts[1]) \/ ~IsNumeral(parts[2])
         THEN \* float() raises ValueError in the else branch
              Sar("ValueError", FALSE, 0, 0)
    ELSE IF Float(parts[2]) = 0
         THEN Sar("ZeroDivisionError", FALSE, 0, 0)
    ELSE Sar("none", FALSE, Float(parts[1]), Float(parts[2]))

\* math.trunc(a / b) of non-negative integers.
Trunc(a, b) == a \div b

\* Line 160, for the ratio l/r.
EffSourceVideoWidth(width, l, r) == Trunc(width * l, r)

\* Lines 162-164, in exact arithmetic (the code multiplies by the float
\* video_height / source_video_height).
VideoWidth(eff_source_video_width, video_height, source_video_height) ==
    Trunc(eff_source_video_width * video_height, source_video_height)

\* A source of the layout with the answer of its probe: "ok", "timeout" (no
\* answer within FFPROBE_TIMEOUT) or "unusable" (output that is no JSON), its
\* audio streams, and sample_aspect_ratio, width and height of its first video
\* stream.
Source(probe, audio, sar, width, height, video_height) ==
    [probe |-> probe, audio |-> audio, sample_aspect_ratio |-> sar, width |-> width,
     height |-> height, video_height |-> video_height]

\* The thread _cmd_run creates for a source (lines 204-208), with what was
\* computed for it.
Thread(src, sar) ==
    [graph |-> Filtergraph(src.audio),
     audio_channel_ids |-> MeterGraphChannelIds(src.audio),
     sar_warning |-> sar.warned,
     video_width |-> VideoWidth(EffSourceVideoWidth(src.width, sar.l, sar.r),
                                src.video_height, src.height)]

\* One iteration of the loop over the sources (lines 136-208): the probe of
\* the next source and the construction of its graph and thread. An exception
\* ends _cmd_run: none is caught.
CmdRunSource ==
    /\ run_pc = "loop"
    /\ Len(ffmpeg_threads) < Len(sources)
    /\ LET src == sources[Len(ffmpeg_threads) + 1]
           sar == ParseSar(src.sample_aspect_ratio)
       IN  IF src.probe = "timeout"
           THEN /\ run_error' = "FrameInputException"
                /\ run_pc' = "aborted"
                /\ UNCHANGED ffmpeg_threads
           ELSE IF src.probe = "unusable"
           THEN /\ run_error' = "JSONDecodeError"
                /\ run_pc' = "aborted"
                /\ UNCHANGED ffmpeg_threads
           ELSE IF sar.error # "none"
           THEN /\ run_error' = sar.error
                /\ run_pc' = "aborted"
                /\ UNCHANGED ffmpeg_threads
           ELSE /\ ffmpeg_threads' = Append(ffmpeg_threads, Thread(src, sar))
                /\ UNCHANGED <<run_error, run_pc>>
    /\ UNCHANGED <<thread_vars, layout_vars, sources, started>>

\* One iteration of the loop that starts the threads (lines 209-212).
CmdRunStartThread ==
    /\ run_pc = "loop"
    /\ Len(ffmpeg_threads) = Len(sources)
    /\ started < Len(ffmpeg_threads)
    /\ started' = started + 1
    /\ UNCHANGED <<thread_vars, layout_vars, sources, run_pc, ffmpeg_threads, run_error>>

\* ------------------------------------------------------- specifications
\* _cmd_run is not running.
InitNoRun ==
    /\ sources = <<>>
    /\ run_pc = "loop"
    /\ ffmpeg_threads = <<>>
    /\ started = 0
    /\ run_error = "none"

InitThread ==
    /\ pc = "setup"
    /\ audio_streams \in StreamLists
    /\ audio_ch_ids = <<>>
    /\ log = <<>>
    /\ stats_file = NoFile
    /\ proc = NoProc
    /\ spawned = 0
    /\ orphans = 0
    /\ last_lines_log = <<>>
    /\ ebur_stats_disabled = FALSE
    /\ gathered_ebur_stats = <<>>
    /\ current_ch = 0
    /\ passed_summary = FALSE
    /\ reports = <<>>
    /\ writes = 0
    /\ lines_read = <<>>

\* No layout is being checked.
InitNoLayout ==
    /\ layout_doc = [kind |-> "list", frames |-> <<>>]
    /\ map_width = 0
    /\ self_layout = NoLayout
    /\ layout_outcome = NoOutcome
    /\ layout_calls = MaxLayoutCalls

\* The thread is not running.
InitNoThread ==
    /\ InitThread
    /\ lines_left = 0
    /\ closes_left = 0

\* Layout documents: frames at small coordinates, among them negative ones,
\* and frames that fail a check of the first loop.
LayoutXs == {-1, 0, 1}
LayoutYs == {-1, 0, 1}
LayoutSizes == {1, 2}
MapWidths == {2, 3}
BadFrames ==
    { [Frame(0, 0, 1, 1) EXCEPT !.is_dict = FALSE],
      [Frame(0, 0, 1, 1) EXCEPT !.has_required = FALSE],
      [Frame(0, 0, 1, 1) EXCEPT !.types_ok = FALSE],
      [Frame(0, 0, 1, 1) EXCEPT !.video_height = 0],
      Frame(0, 0, 0, 1),
      Frame(0, 1, 1, -1) }
Frames ==
    {Frame(x, y, w, h) : x \in LayoutXs, y \in LayoutYs, w \in LayoutSizes, h \in LayoutSizes}
        \cup BadFrames
LayoutDocs ==
    {[kind |-> "list", frames |-> fs] : fs \in UNION {[1..n -> Frames] : n \in 0..MaxFrames}}
        \cup {[kind |-> k, frames |-> <<>>] : k \in {"nofile", "badjson", "object"}}

InitLayout ==
    /\ InitNoThread
    /\ audio_streams = <<>>
    /\ layout_doc \in LayoutDocs
    /\ map_width \in MapWidths
    /\ self_layout = NoLayout
    /\ layout_outcome = NoOutcome
    /\ layout_calls = 0
    /\ InitNoRun

NextLayout == LayoutCheck

SpecLayout == InitLayout /\ [][NextLayout]_vars

\* Audio topologies: mono, stereo and three-channel streams, one of them with
\* a two-digit stream index.
MeterStreams ==
    {[index |-> i, channels |-> c] : i \in {3, 5}, c \in {1, 2}}
        \cup {[index |-> 12, channels |-> 3]}
MeterStreamLists == UNION {[1..n -> MeterStreams] : n \in 0..MaxStreams}
ReportLines == {ReportLine(g) : g \in Measurements}

\* One lifetime of the thread on report lines, for every audio topology.
InitMeter ==
    /\ pc = "setup"
    /\ audio_streams \in MeterStreamLists
    /\ audio_ch_ids = <<>>
    /\ log = <<>>
    /\ stats_file = NoFile
    /\ proc = NoProc
    /\ spawned = 0
    /\ orphans = 0
    /\ last_lines_log = <<>>
    /\ ebur_stats_disabled = FALSE
    /\ gathered_ebur_stats = <<>>
    /\ current_ch = 0
    /\ passed_summary = FALSE
    /\ reports = <<>>
    /\ writes = 0
    /\ lines_read = <<>>
    /\ lines_left = MaxLines
    /\ closes_left = 0
    /\ InitNoLayout
    /\ InitNoRun

NextMeter ==
    \/ CmdRun
    \/ LogStart
    \/ Spawn
    \/ LogStarted
    \/ \E line \in ReportLines : ReadLine(line)
    \/ \E n \in 1..MaxLines : FlushStats(n)
    \/ CloseStats

SpecMeter == InitMeter /\ [][NextMeter]_vars

\* Budgets of the environment: lines it emits, streams it closes.
Init ==
    /\ InitThread
    /\ InitNoLayout
    /\ lines_left = MaxLines
    /\ closes_left = MaxCloses
    /\ InitNoRun

Next ==
    \/ CmdRun
    \/ LogStart
    \/ Spawn
    \/ LogStarted
    \/ \E line \in Lines : ReadLine(line)
    \/ \E n \in 1..MaxLines : FlushStats(n)
    \/ CloseStats
    \/ ReadEOF
    \/ LogEnd
    \/ ProcCloseStderr
    \/ \E code \in ExitCodes : ProcExit(code)
    \/ OrphanExit

Spec == Init /\ [][Next]_vars


\* The steps of the supervisor thread that wait for nothing: a started thread
\* takes them. (Reading a line waits for the encoder; a flush before the close
\* is the writer's choice.)
ThreadFairness ==
    /\ WF_vars(CmdRun)
    /\ WF_vars(LogStart)
    /\ WF_vars(Spawn)
    /\ WF_vars(LogStarted)
    /\ WF_vars(CloseStats)
    /\ WF_vars(ReadEOF)
    /\ WF_vars(LogEnd)

InitLive ==
    /\ InitThread
    /\ InitNoLayout
    /\ lines_left = MaxLinesLive
    /\ closes_left = MaxClosesLive
    /\ InitNoRun

SpecLive == InitLive /\ [][Next]_vars /\ ThreadFairness

\* More lifetimes, of lines that are no reports: no cycle is gathered, and
\* the only snapshot write is the empty one of a source without channels.
RespawnLines == {OtherLine, BadLine}

InitRespawn ==
    /\ InitThread
    /\ InitNoLayout
    /\ lines_left = MaxLinesRespawn
    /\ closes_left = MaxClosesRespawn
    /\ InitNoRun

NextRespawn ==
    \/ CmdRun
    \/ LogStart
    \/ Spawn
    \/ LogStarted
    \/ \E line \in RespawnLines : ReadLine(line)
    \/ CloseStats
    \/ ReadEOF
    \/ LogEnd
    \/ ProcCloseStderr
    \/ \E code \in ExitCodes : ProcExit(code)
    \/ OrphanExit

SpecRespawn == InitRespawn /\ [][NextRespawn]_vars /\ ThreadFairness

\* The audio streams of the sources of a run: none, one, two.
RunAudio == { <<>>, <<Mono5>>, <<Stereo3, Mono5>> }
\* sample_aspect_ratio values: ratios, and values that are no ratio of two
\* numbers ("N/A" is what ffprobe prints for an unknown ratio).
SarStrings ==
    { <<"1", ":", "1">>, <<"4", ":", "3">>, <<"1", "6", ":", "1", "5">>,
      <<"N", "/", "A">>, <<"1", ":", "2", ":", "3">>, <<"a", ":", "b">>,
      <<"1", ":", "0">> }
RunSources ==
    {Source("ok", a, s, 4, 2, 3) : a \in RunAudio, s \in SarStrings}
        \cup {Source(p, <<>>, <<"1", ":", "1">>, 4, 2, 3) : p \in {"timeout", "unusable"}}

InitRun ==
    /\ InitNoThread
    /\ audio_streams = <<>>
    /\ InitNoLayout
    /\ sources \in UNION {[1..n -> RunSources] : n \in 0..MaxSources}
    /\ run_pc = "loop"
    /\ ffmpeg_threads = <<>>
    /\ started = 0
    /\ run_error = "none"

NextRun ==
    \/ CmdRunSource
    \/ CmdRunStartThread

SpecRun == InitRun /\ [][NextRun]_vars

\* One source with a video stream of every small size and ratio, and of the
\* size 1920x1080 scaled to the height 480.
Widths == 1..MaxWidth \cup {1920}
Heights == 1..MaxHeight \cup {1080}
VideoHeights == 1..MaxHeight \cup {480}
SarTerms == 1..MaxSarTerm
SarString(l, r) == Str(l) \o <<":">> \o Str(r)

InitScale ==
    /\ InitNoThread
    /\ audio_streams = <<>>
    /\ InitNoLayout
    /\ sources \in {<<Source("ok", <<Mono5>>, SarString(l, r), w, h, vh)>> :
                       l \in SarTerms, r \in SarTerms, w \in Widths, h \in Heights,
                       vh \in VideoHeights}
    /\ run_pc = "loop"
    /\ ffmpeg_threads = <<>>
    /\ started = 0
    /\ run_error = "none"

SpecScale == InitScale /\ [][NextRun]_vars

\* Lifetimes long enough to fill the ring buffer of a mono source, encoders
\* that exit. A Summary line is skipped before the first report of a lifetime
\* and fails to parse after it.
RingLines == {OtherLine, SummaryLine,
              ReportLine(<< <<"-20.1">>, <<"-21.0">>, <<"-23.0">>, <<"5.0">> >>)}

InitRing ==
    /\ InitThread
    /\ audio_streams = <<Mono5>>
    /\ InitNoLayout
    /\ InitNoRun
    /\ lines_left = MaxLinesRing
    /\ closes_left = MaxClosesRing

NextRing ==
    \/ CmdRun
    \/ LogStart
    \/ Spawn
    \/ LogStarted
    \/ \E line \in RingLines : ReadLine(line)
    \/ CloseStats
    \/ ReadEOF
    \/ LogEnd
    \/ \E code \in ExitCodes : ProcExit(code)

SpecRing == InitRing /\ [][NextRing]_vars

\* ------------------------------------------------------------- properties
audio_ch_count == Len(audio_ch_ids)

\* The thread is inside a process lifetime, between two iterations of the read loop
\* or after its end.
BetweenLines == pc \in {"read", "log_end"}

IsReport(line) == line.prefix /\ ~line.summary /\ line.groups # NoMatch

\* The snapshot that holds the k-th cycle of the reports gathered in this lifetime.
CycleSnapshot(k) ==
    [exists |-> TRUE,
     lines |-> [i \in 1..audio_ch_count |->
                  StatLine(audio_ch_ids[i], reports[(k - 1) * audio_ch_count + i])]]

Markers(l) == SelectSeq(l, LAMBDA e : e.kind \in {"starting", "stopped"})
Count(l, kind) == Len(SelectSeq(l, LAMBDA e : e.kind = kind))
IsPrefix(a, b) == Len(a) <= Len(b) /\ SubSeq(b, 1, Len(a)) = a

\* C1: with at least one channel and no line that failed to parse in this
\* lifetime, the completed snapshot writes are one per channelCount gathered
\* reports (a skipped Summary line counts for nothing), and the file holds the
\* last complete cycle: line i is channelIds[i] followed by the four fields of
\* report (k-1)*channelCount+i, k being the number of writes.
C1_SnapshotPerCycle ==
    (audio_ch_count >= 1 /\ ~ebur_stats_disabled) =>
        /\ BetweenLines =>
              /\ writes = Len(reports) \div audio_ch_count
              /\ Len(gathered_ebur_stats) = Len(reports) % audio_ch_count
              /\ writes >= 1 => stats_file = CycleSnapshot(writes)
        /\ pc = "write" =>
              /\ writes + 1 = Len(reports) \div audio_ch_count
              /\ gathered_ebur_stats = CycleSnapshot(writes + 1).lines

\* A Summary line, then exactly channelCount = 2 reports: one write of two lines.
C1_Witness ==
    /\ pc = "read"
    /\ audio_ch_count = 2
    /\ Len(last_lines_log) = 3
    /\ last_lines_log[1] = SummaryLine
    /\ IsReport(last_lines_log[2]) /\ IsReport(last_lines_log[3])
    /\ last_lines_log[2] # last_lines_log[3]
    /\ writes = 1
    /\ stats_file.exists /\ Len(stats_file.lines) = 2

\* C2: once a line has failed to parse after fewer than channelCount gathered
\* reports, this lifetime has written no snapshot and writes none, whatever
\* lines follow: the snapshot file is absent, and a line read afterwards (a
\* well-formed report too) is not gathered and leaves extraction disabled.
C2_NoWriteAfterParseError ==
    /\ []((pc \in {"read", "write", "log_end"} /\ ebur_stats_disabled
             /\ Len(reports) < audio_ch_count) =>
            (/\ writes = 0
             /\ pc # "write"
             /\ stats_file = NoFile
             /\ Len(gathered_ebur_stats) = Len(reports)))
    /\ [][(pc = "read" /\ ebur_stats_disabled /\ Len(reports) < audio_ch_count) =>
             (/\ pc' \in {"read", "log_end"}
              /\ ebur_stats_disabled'
              /\ reports' = reports
              /\ gathered_ebur_stats' = gathered_ebur_stats
              /\ writes' = 0
              /\ stats_file' = NoFile)]_vars

\* One report, the malformed line, then one more report: still disabled, no write.
C2_Witness ==
    /\ pc = "read"
    /\ ebur_stats_disabled
    /\ audio_ch_count = 2
    /\ Len(last_lines_log) = 3
    /\ IsReport(last_lines_log[1])
    /\ last_lines_log[2] = BadLine
    /\ IsReport(last_lines_log[3])
    /\ Len(gathered_ebur_stats) = 1
    /\ writes = 0

C4_ParseErrorKeepsSupervising ==
    /\ [](ebur_stats_disabled => pc # "crashed")
    /\ [][(pc = "read" /\ lines_left' # lines_left /\ ~ebur_stats_disabled
              /\ last_lines_log' # <<>>
              /\ last_lines_log'[Len(last_lines_log')].prefix
              /\ last_lines_log'[Len(last_lines_log')].groups = NoMatch
              /\ ~Skipped(last_lines_log'[Len(last_lines_log')])) =>
             (ebur_stats_disabled' /\ pc' \in {"read", "write"})]_vars
    /\ [][(ebur_stats_disabled /\ pc = "read" /\ lines_left' # lines_left) =>
             (/\ pc' = "read"
              /\ \E line \in Lines : last_lines_log' = DequeAppend(last_lines_log, line))]_vars
    /\ \A n \in 1..(MaxClosesLive + 1) :
          (ebur_stats_disabled /\ pc \in {"read", "write"} /\ spawned = n
              /\ ~proc.stderr_open)
            ~> (spawned = n + 1 /\ Count(log, "stopped") = n)

\* The second process runs after a first lifetime in which a line was read
\* after the parse failure; the end marker holds both lines.
C4_Witness ==
    /\ spawned = 2
    /\ pc = "read"
    /\ Count(log, "warning") = 1
    /\ Count(log, "stopped") = 1
    /\ \E k \in DOMAIN log :
          /\ log[k].kind = "stopped"
          /\ Len(log[k].output) = 2
          /\ log[k].output[1] = BadLine
          /\ log[k].output[2] # BadLine

\* C5: a lifetime starts with the extractor enabled, cursor 0, an empty buffer
\* and no steady-state report seen, and a disabled extractor is enabled again
\* by no step other than the one at the top of the loop that precedes the spawn.
C5_FreshAtRespawn ==
    /\ []((pc = "read" /\ last_lines_log = <<>>) =>
            (/\ ~ebur_stats_disabled
             /\ current_ch = 0
             /\ gathered_ebur_stats = <<>>
             /\ ~passed_summary))
    /\ [][(ebur_stats_disabled /\ ~ebur_stats_disabled') =>
             (pc = "log_start" /\ pc' = "spawn")]_vars

\* The second lifetime starts after a first one that ended disabled with a
\* report in the buffer.
C5_Witness ==
    /\ spawned = 2
    /\ pc = "read"
    /\ last_lines_log = <<>>
    /\ Count(log, "warning") = 1
    /\ Len(reports) = 0
    /\ \E k \in DOMAIN log :
          /\ log[k].kind = "stopped"
          /\ Len(log[k].output) = 2
          /\ IsReport(log[k].output[1])
          /\ log[k].output[2] = BadLine

\* C6: whenever the snapshot file exists, it holds a complete cycle of exactly
\* channelCount lines.
C6_ReaderSeesWholeCycles ==
    stats_file.exists => Len(stats_file.lines) = audio_ch_count

\* C9: the end marker records the code with which the process exited.
C9_EndMarkerHasExitCode ==
    [][(pc = "log_end" /\ pc' # "log_end" /\ ~proc.alive) =>
          log'[Len(log')].code = proc.exitcode]_vars

\* C10: the log only grows by appending; its start and end markers alternate,
\* beginning with a start marker; a lifetime's start marker is in the log
\* before its process is spawned, and its end marker is appended after its
\* stream was closed and before the next start marker.
C10_LogMarkersMatched ==
    /\ [][IsPrefix(log, log')]_vars
    /\ [](\A k \in DOMAIN Markers(log) :
            Markers(log)[k].kind = (IF k % 2 = 1 THEN "starting" ELSE "stopped"))
    /\ [](Count(log, "starting") = spawned + (IF pc = "spawn" THEN 1 ELSE 0))
    /\ [](Count(log, "stopped") =
            spawned - (IF pc \in {"log_started", "read", "write", "log_end", "crashed"}
                       THEN 1 ELSE 0))
    /\ [][Count(log', "stopped") > Count(log, "stopped") => ~proc.stderr_open]_vars

\* Three start markers and two end markers, with a warning in between.
C10_Witness ==
    /\ Len(Markers(log)) = 5
    /\ Count(log, "warning") >= 1
    /\ spawned = 3


\* The grid cells of a frame's rectangle [x, x+width) x [y, y+height).
Rectangle(f) ==
    {<<a, b>> : a \in f.x..(f.x + f.width - 1), b \in f.y..(f.y + f.height - 1)}

NoIntersection(frames) ==
    \A i, j \in DOMAIN frames : i # j => Rectangle(frames[i]) \cap Rectangle(frames[j]) = {}

PassesFrameChecks(f) == f.is_dict /\ f.has_required /\ f.types_ok /\ f.video_height > 0

Validated == layout_calls = 1 /\ layout_doc.kind = "list"

\* C7: a layout whose frames pass the key, type and video_height checks is
\* accepted exactly when no two rectangles intersect and every frame has
\* x + width <= mapWidth, and then the grid height is the greatest y + height.
C7_AcceptIffDisjoint ==
    (Validated /\ \A k \in DOMAIN layout_doc.frames : PassesFrameChecks(layout_doc.frames[k])) =>
        /\ (layout_outcome.result = "ok") <=>
              (/\ NoIntersection(layout_doc.frames)
               /\ \A k \in DOMAIN layout_doc.frames :
                     layout_doc.frames[k].x + layout_doc.frames[k].width <= map_width)
        /\ (layout_outcome.result = "ok" /\ layout_doc.frames # <<>>) =>
              (/\ \A k \in DOMAIN layout_doc.frames :
                     layout_doc.frames[k].y + layout_doc.frames[k].height
                        <= layout_outcome.map_height
               /\ \E k \in DOMAIN layout_doc.frames :
                     layout_doc.frames[k].y + layout_doc.frames[k].height
                        = layout_outcome.map_height)


RECURSIVE ChannelsBefore(_, _)
\* The channels of the streams before stream k.
ChannelsBefore(streams, k) ==
    IF k <= 1 THEN 0 ELSE ChannelsBefore(streams, k - 1) + streams[k - 1].channels

\* C8: the channel-id list is the concatenation in stream order of
\* "{index}:0" .. "{index}:{channels-1}" (a mono stream giving "{index}:0"),
\* stereo 3 then mono 5 giving ["3:0", "3:1", "5:0"], and it is the list whose
\* element at the cursor labels each gathered measurement.
C8_ChannelIdOrder ==
    pc # "setup" =>
        /\ Len(audio_ch_ids) = ChannelsBefore(audio_streams, Len(audio_streams) + 1)
        /\ \A k \in DOMAIN audio_streams : \A c \in 0..(audio_streams[k].channels - 1) :
              audio_ch_ids[ChannelsBefore(audio_streams, k) + c + 1] =
                  Str(audio_streams[k].index) \o <<":">> \o Str(c)
        /\ audio_streams = <<Stereo3, Mono5>> =>
              audio_ch_ids = << <<"3", ":", "0">>, <<"3", ":", "1">>, <<"5", ":", "0">> >>
        /\ \A i \in DOMAIN gathered_ebur_stats :
              /\ i <= Len(audio_ch_ids)
              /\ SubSeq(gathered_ebur_stats[i], 1, Len(audio_ch_ids[i]) + 1) =
                    audio_ch_ids[i] \o <<" ">>

\* Stereo 3 then mono 5: three reports gathered, one under each id.
C8_Witness ==
    /\ audio_streams = <<Stereo3, Mono5>>
    /\ pc = "write"
    /\ Len(gathered_ebur_stats) = 3
    /\ gathered_ebur_stats[3][1] = "5"

\* _cmd_run has nothing left to do: an exception ended it, or every thread is
\* created and started.
RunDone ==
    \/ run_pc = "aborted"
    \/ (Len(ffmpeg_threads) = Len(sources) /\ started = Len(sources))

\* Every sample_aspect_ratio of the run is converted without an exception.
SarsConverted ==
    \A k \in DOMAIN sources : ParseSar(sources[k].sample_aspect_ratio).error = "none"

\* C11: when _cmd_run has ended, every source whose probe succeeded has its
\* graph built and its thread started, whatever the probes of the other
\* sources returned (stated for runs in which no aspect ratio raises).
C11_ProbeFailureIsolated ==
    (RunDone /\ SarsConverted) =>
        \A k \in DOMAIN sources :
            sources[k].probe = "ok" => (k <= Len(ffmpeg_threads) /\ k <= started)

\* The chains of a graph that write a label.
Producers(graph, label) ==
    {a \in DOMAIN graph : \E b \in DOMAIN graph[a].outputs : graph[a].outputs[b] = label}

\* Every label a chain reads is written by exactly one chain of the graph.
WellChained(graph) ==
    \A k \in DOMAIN graph : \A j \in DOMAIN graph[k].inputs :
        Cardinality(Producers(graph, graph[k].inputs[j])) = 1

\* C12: for every audio topology, the one without audio streams included, the
\* filtergraph built for a source is well chained: every label a chain reads,
\* the meter panel output read by the meter scaling chain among them, is
\* written by exactly one chain of the same graph.
C12_GraphWellChained ==
    \A k \in DOMAIN ffmpeg_threads : WellChained(ffmpeg_threads[k].graph)

\* C13: a call of _layout_check either accepts the document or ends with
\* LayoutException, and with no other exception, whatever the document.
C13_OnlyLayoutError ==
    layout_calls >= 1 => layout_outcome.result \in {"ok", "LayoutException"}

\* A sample_aspect_ratio that is a pair "W:H" of numbers with H not zero.
UsableSar(s) ==
    /\ Len(Split(s, ":")) = 2
    /\ IsNumeral(Split(s, ":")[1])
    /\ IsNumeral(Split(s, ":")[2])
    /\ Float(Split(s, ":")[2]) # 0

\* C14: a sample_aspect_ratio that is no usable "W:H" pair (no colon, more
\* than one colon, non-numeric parts, zero denominator) never ends _cmd_run:
\* the thread of the source is created with the warning given and the width
\* computed for the ratio 1.
C14_SarFailureNonFatal ==
    /\ run_error \notin {"ValueError", "ZeroDivisionError"}
    /\ \A k \in DOMAIN ffmpeg_threads :
          ~UsableSar(sources[k].sample_aspect_ratio) =>
              /\ ffmpeg_threads[k].sar_warning
              /\ ffmpeg_threads[k].video_width =
                    VideoWidth(sources[k].width, sources[k].video_height, sources[k].height)

\* C15: the width a source's video is scaled to is the exact product
\* width x (W/H) x video_height / height, truncated once; 1920 wide at ratio
\* 1:1 and height 1080, scaled to the height 480, gives 853.
C15_SingleTruncation ==
    \A k \in DOMAIN ffmpeg_threads : \A l \in SarTerms, r \in SarTerms :
        sources[k].sample_aspect_ratio = SarString(l, r) =>
            ffmpeg_threads[k].video_width =
                (sources[k].width * l * sources[k].video_height) \div (r * sources[k].height)

\* C16: a call of _layout_check after a successful one leaves the stored
\* layout unchanged and ends as the first did; a call that fails stores no
\* layout; the layout stored is the document that was accepted.
C16_ValidationIdempotent ==
    /\ [][(layout_calls' = layout_calls + 1) =>
            /\ self_layout.set => (self_layout' = self_layout /\ layout_outcome' = layout_outcome)
            /\ layout_outcome'.result # "ok" => self_layout' = NoLayout]_vars
    /\ [](self_layout.set =>
            (layout_outcome.result = "ok" /\ self_layout.frames = layout_doc.frames))

\* A layout of two frames accepted, then _layout_check called again.
C16_Witness ==
    /\ layout_calls = 2
    /\ self_layout.set
    /\ Len(self_layout.frames) = 2
    /\ layout_outcome.result = "ok"

\* C17: between two iterations of the read loop the cursor is one of
\* 0 .. channelCount-1 (read here for lists of at least one id, the range
\* being empty otherwise) and is the number of lines in the buffer, and for
\* every channel-id list, the empty one included, no report line finds
\* audio_ch_ids[current_ch] out of range.
C17_CursorInRange ==
    /\ (BetweenLines /\ audio_ch_count >= 1) =>
          /\ current_ch \in 0..(audio_ch_count - 1)
          /\ current_ch = Len(gathered_ebur_stats)
    /\ pc # "crashed"

\* The last min(n, Len(s)) elements of s.
LastLines(s, n) == SubSeq(s, Len(s) - (IF Len(s) < n THEN Len(s) ELSE n) + 1, Len(s))

\* C18: when a lifetime has ended, its end marker holds the last min(5, n) of
\* the n lines read from the process of that lifetime, in arrival order,
\* whatever the lines were, and no line of an earlier lifetime.
C18_EndMarkerLastLines ==
    (pc = "log_start" /\ spawned >= 1) =>
        /\ log[Len(log)].kind = "stopped"
        /\ log[Len(log)].output = LastLines(lines_read, 5)

\* A second lifetime of six lines has ended: a skipped Summary line, a report,
\* a Summary line that fails to parse, then lines read with the extraction
\* disabled. Its marker holds the last five.
C18_Witness ==
    /\ pc = "log_start"
    /\ spawned = 2
    /\ Len(lines_read) = 6
    /\ Len(log[Len(log)].output) = 5
    /\ lines_read[1] = SummaryLine
    /\ lines_read[2] \in ReportLines
    /\ lines_read[3] = SummaryLine
    /\ lines_read[5] \in ReportLines
    /\ lines_read[6] = OtherLine
    /\ ebur_stats_disabled

\* The line the step read, the step being an iteration of the read loop.
LineRead == lines_read'[Len(lines_read')]

\* C19: reading a line without the measurement prefix, a Summary line before
\* the first report of the lifetime, or any line while the extraction is
\* disabled changes nothing but the ring buffer: cursor, buffer, flag,
\* passed_summary, snapshot file and log stay as they are and the thread goes
\* on reading.
C19_IgnoredLineOnlyBuffered ==
    [][(/\ lines_left' = lines_left - 1
        /\ \/ ~LineRead.prefix
           \/ (LineRead.prefix /\ LineRead.summary /\ ~passed_summary)
           \/ ebur_stats_disabled)
       => /\ current_ch' = current_ch
          /\ gathered_ebur_stats' = gathered_ebur_stats
          /\ ebur_stats_disabled' = ebur_stats_disabled
          /\ passed_summary' = passed_summary
          /\ stats_file' = stats_file
          /\ log' = log
          /\ writes' = writes
          /\ pc' = "read"
          /\ last_lines_log' = LastLines(lines_read', 5)]_vars

\* Two channels: a Summary line skipped, one report gathered, then a line
\* without the prefix; the cursor still stands at 1.
C19_Witness ==
    /\ audio_ch_count = 2
    /\ pc = "read"
    /\ Len(lines_read) = 3
    /\ lines_read[1] = SummaryLine
    /\ lines_read[2] \in ReportLines
    /\ lines_read[3] = OtherLine
    /\ last_lines_log = lines_read
    /\ current_ch = 1
    /\ Len(gathered_ebur_stats) = 1
    /\ ~ebur_stats_disabled

\* The call rejected the layout in the second loop: every frame passed the
\* checks of the first one.
RejectedForOverlap ==
    /\ Validated
    /\ layout_outcome.result = "LayoutException"
    /\ \A k \in DOMAIN layout_doc.frames :
          /\ PassesFrameChecks(layout_doc.frames[k])
          /\ layout_doc.frames[k].x + layout_doc.frames[k].width <= map_width

\* The cells of frame i that an earlier frame occupies.
CellsTaken(frames, i) ==
    {c \in Rectangle(frames[i]) : \E j \in 1..(i - 1) : c \in Rectangle(frames[j])}

\* C20: a layout rejected for overlap is rejected at the first frame whose
\* rectangle intersects the rectangle of an earlier frame, and the cell named
\* is the first cell of that frame, x ascending then y ascending, that an
\* earlier frame occupies.
C20_OverlapNamesFirstCell ==
    RejectedForOverlap =>
        LET frames == layout_doc.frames
            i == layout_outcome.frame + 1
        IN  /\ i \in DOMAIN frames
            /\ CellsTaken(frames, i) # {}
            /\ \A h \in 1..(i - 1) : CellsTaken(frames, h) = {}
            /\ <<layout_outcome.x, layout_outcome.y>> \in CellsTaken(frames, i)
            /\ \A c \in CellsTaken(frames, i) :
                  \/ layout_outcome.x < c[1]
                  \/ (layout_outcome.x = c[1] /\ layout_outcome.y <= c[2])

\* The encoder processes this thread spawned that are running.
LiveProcesses == (IF proc.alive THEN 1 ELSE 0) + orphans

\* C21: at most one encoder process spawned by the thread is alive at any
\* time, a process that closed its stderr and runs on included.
C21_OneLiveProcess == LiveProcesses <= 1

\* C22: while the extraction is disabled in a lifetime, from the processing
\* of the line that failed to parse on, the snapshot file does not exist and
\* no write of it is under way, for every channel-id list, the empty one
\* included.
C22_NoSnapshotWhileDisabled ==
    (ebur_stats_disabled /\ pc \in {"read", "write", "log_end"}) =>
        (~stats_file.exists /\ pc # "write")

\* C23: the buffer holds measurements of the current lifetime only, namely
\* the last reports gathered in it, each under the id of its position, and a
\* snapshot written or being written in this lifetime holds lines of reports
\* of this lifetime only: what an earlier process left in the buffer is in
\* no snapshot of a later one.
C23_SnapshotSingleLifetime ==
    pc \in {"read", "write", "log_end"} =>
        /\ Len(gathered_ebur_stats) <= Len(reports)
        /\ \A i \in DOMAIN gathered_ebur_stats :
              gathered_ebur_stats[i] =
                  StatLine(audio_ch_ids[i],
                           reports[Len(reports) - Len(gathered_ebur_stats) + i])
        /\ (stats_file.exists /\ (writes >= 1 \/ pc = "write")) =>
              /\ Len(stats_file.lines) <= audio_ch_count
              /\ \A i \in DOMAIN stats_file.lines : \E k \in DOMAIN reports :
                    stats_file.lines[i] = StatLine(audio_ch_ids[i], reports[k])

\* Two channels: the first process ended after one report (cursor 1); the
\* second one wrote a snapshot of its own two reports.
C23_Witness ==
    /\ audio_ch_count = 2
    /\ spawned = 2
    /\ pc = "read"
    /\ writes = 1
    /\ Len(reports) = 2
    /\ Len(stats_file.lines) = 2
    /\ \E k \in DOMAIN log :
          /\ log[k].kind = "stopped"
          /\ Len(log[k].output) = 1
          /\ log[k].output[1] \in ReportLines
          /\ log[k].output[1].groups # reports[1]

====
